---- MODULE Spec2Model ----
(***************************************************************************)
(* Elastic state objects of horovod/tensorflow/elastic.py:                 *)
(* TensorFlowKerasState (model + optimizer weights) and TensorFlowState    *)
(* (a list of variables), one State object per rank, with save(),          *)
(* restore() and the collective sync().                                    *)
(*                                                                         *)
(* Every rank is one process with one thread of control.  A variable of    *)
(* the framework is an id; store[r][v] is its live value in rank r.        *)
(* The framework primitives are modelled by what they do in the two        *)
(* execution modes: in eager mode an operation takes effect when it is     *)
(* called, in graph mode a call only builds an operation, which takes      *)
(* effect when a session runs it.                                          *)
(***************************************************************************)
EXTENDS Integers, Sequences, FiniteSets, TLC

\* ---- bounds of the model
NumRanks == 2
MaxVal == 1
MaxTrainSteps == 1

None == "None"
Ranks == 0 .. (NumRanks - 1)
Values == 0 .. MaxVal

\* model.variables, optimizer.variables() and the variable a program may
\* create after the State was built
ModelVars == <<"w">>
OptimizerVars == <<"m">>
LateVar == "late"
VarIds == {"w", "m", LateVar}
InitialGlobals == <<"w", "m">>

\* an unset field (no snapshot captured yet)
Unset == <<>>

VARIABLES
    \* the program and its environment, the same on every rank
    variant,            \* "Keras": TensorFlowKerasState, "TF": TensorFlowState
    IS_TF2,             \* _IS_TF2
    eager,              \* _hvd._executing_eagerly()
    model,              \* [has_build, built] of the Keras model
    backend,            \* the backend argument (None or "K")
    session_arg,        \* the session argument (None or "sess")
    ambient_session,    \* ops.get_default_session() of the process (None or "sess")
    variables_arg,      \* the variables argument (<<>> when None or empty)
    \* per rank
    globals,            \* the global variable collection
    store,              \* live values of the variables
    pc,                 \* where the rank's thread is
    variables, session, eval_fn, assign_fn, values,   \* fields of TensorFlowState
    saved_model_state, saved_optimizer_state,          \* fields of TensorFlowKerasState
    inflight,           \* the collective the runtime has released and is still delivering
    last, trace,        \* outcome of the rank's last call and the steps that call took
    prior,              \* the outcome the rank's last call, a restore(), followed
    \* history
    pre0,               \* rank 0's live values when it last called sync()
    seen,               \* ranks that were inside sync() during the rank's sync(), kept until its next call
    trainsteps,
    entry,              \* the rank's live values when it entered an eager Keras sync(), kept while it is inside
    recovering,         \* the rank's sync() was called right after a restore() that returned, kept until its next call
    base0,              \* rank 0's snapshot when it called such a sync(), kept until its next call
    untouched               \* the State was built and neither save() nor sync() has been called on it

cfgVars == <<variant, IS_TF2, eager, model, backend, session_arg, ambient_session,
             variables_arg>>
tfVars == <<variables, session, eval_fn, assign_fn>>
snapVars == <<values, saved_model_state, saved_optimizer_state>>
ghostVars == <<entry, recovering, base0, untouched>>
vars == <<cfgVars, globals, store, pc, tfVars, snapVars, inflight, last, trace,
          prior, pre0, seen, trainsteps, ghostVars>>

NoValues == [v \in VarIds |-> 0]

NoCollective == [kind |-> "none", data |-> [v \in VarIds |-> 0], pending |-> {}]

\* ---- module-level helpers of elastic.py

\* a constructor that does not look at model.built
model_built_unchecked(m) == TRUE

\* _model_built(model)
model_built(m) == IF m.has_build THEN m.built ELSE TRUE

\* _global_variables(): the collection accessor returns a new list
global_variables(r) == globals[r]

\* _default_session()
default_session == IF ~IS_TF2 THEN ambient_session ELSE None

\* ---- framework primitives

\* the session an eval/load with session argument s goes through
SessionUsed(s) == IF s # None THEN s ELSE ambient_session

\* a capture that stops after the first variable
Read_first(st, vs) == [i \in 1 .. (IF Len(vs) > 1 THEN 1 ELSE Len(vs)) |-> st[vs[i]]]

\* get_weights() / numpy() / eval(): the live values of a list of variables
Read(st, vs) == [i \in 1 .. Len(vs) |-> st[vs[i]]]

\* set_weights(): write a list of values onto a list of variables
RECURSIVE Write(_, _, _)
Write(st, vs, ws) ==
    IF vs = <<>> \/ ws = <<>> THEN st
    ELSE Write([st EXCEPT ![Head(vs)] = Head(ws)], Tail(vs), Tail(ws))

\* TensorFlowState._eval_var / _to_numpy raise: eval needs a session
eval_raises(fn, sess) == fn = "_eval_var" /\ SessionUsed(sess) = None

\* TensorFlowState._assign_var: var.assign(value) writes in eager mode and
\* only builds an assign operation in graph mode
assign_var(st, var, value) == IF eager THEN [st EXCEPT ![var] = value] ELSE st

\* TensorFlowState._load_var: var.load(value, session) assigns in eager mode
\* and runs the initializer through the session in graph mode
load_var(st, var, value) == [st EXCEPT ![var] = value]

load_raises(fn, sess) == fn = "_load_var" /\ ~eager /\ SessionUsed(sess) = None

assign_fn_apply(fn, st, var, value) ==
    IF fn = "_assign_var" THEN assign_var(st, var, value) ELSE load_var(st, var, value)

\* TensorFlowState._load_model: for var, value in zip(variables, _values)
RECURSIVE load_model_tf(_, _, _, _)
load_model_tf(fn, st, vs, ws) ==
    IF vs = <<>> \/ ws = <<>> THEN st
    ELSE load_model_tf(fn, assign_fn_apply(fn, st, Head(vs), Head(ws)), Tail(vs), Tail(ws))

\* a _load_model that hands each object the other one's saved weights
load_model_keras_swapped(st, r) ==
    Write(Write(st, ModelVars, saved_optimizer_state[r]), OptimizerVars, saved_model_state[r])

\* TensorFlowKerasState._load_model
load_model_keras(st, r) ==
    Write(Write(st, ModelVars, saved_model_state[r]), OptimizerVars, saved_optimizer_state[r])

\* the variables a State tracks
Tracked(r) == IF variant = "Keras" THEN ModelVars \o OptimizerVars ELSE variables[r]

\* the stored snapshot
Snapshot(r) ==
    IF variant = "Keras" THEN saved_model_state[r] \o saved_optimizer_state[r] ELSE values[r]

Live(r) == Read(store[r], Tracked(r))

\* ---- _save_model, with the read that raises (0: none; 1: the first; 2: a later one)

capture_raises(fail, fn, sess) == fail # 0 \/ (variant = "TF" /\ eval_raises(fn, sess))

\* a _save_model that stores the capture in every rank's State
save_model_everywhere(r, st, vs, fn, sess, fail) ==
    /\ saved_model_state' =
         IF variant = "Keras" /\ fail # 1
         THEN [q \in Ranks |-> Read(st, ModelVars)]
         ELSE saved_model_state
    /\ saved_optimizer_state' =
         IF variant = "Keras" /\ fail = 0
         THEN [q \in Ranks |-> Read(st, OptimizerVars)]
         ELSE saved_optimizer_state
    /\ values' =
         IF variant = "TF" /\ ~capture_raises(fail, fn, sess)
         THEN [q \in Ranks |-> Read(st, vs)]
         ELSE values

save_model(r, st, vs, fn, sess, fail) ==
    /\ saved_model_state' =
         IF variant = "Keras" /\ fail # 1
         THEN [saved_model_state EXCEPT ![r] = Read(st, ModelVars)]
         ELSE saved_model_state
    /\ saved_optimizer_state' =
         IF variant = "Keras" /\ fail = 0
         THEN [saved_optimizer_state EXCEPT ![r] = Read(st, OptimizerVars)]
         ELSE saved_optimizer_state
    /\ values' =
         IF variant = "TF" /\ ~capture_raises(fail, fn, sess)
         THEN [values EXCEPT ![r] = Read(st, vs)]
         ELSE values

Fails == 0 .. 2

\* ---- initial state: no State object built yet

Models == {[has_build |-> TRUE, built |-> TRUE], [has_build |-> TRUE, built |-> FALSE],
           [has_build |-> FALSE, built |-> FALSE]}

Init ==
    /\ variant \in {"Keras", "TF"}
    /\ eager \in BOOLEAN
    /\ IF variant = "Keras"
       THEN \* TensorFlowKerasState never reads _IS_TF2
            /\ IS_TF2 = eager
            /\ model \in Models
            /\ backend \in {None, "K"}
            /\ session_arg = None
            /\ ambient_session = None
            /\ variables_arg = <<>>
       ELSE /\ IS_TF2 \in BOOLEAN
            /\ model = [has_build |-> FALSE, built |-> FALSE]
            /\ backend = None
            /\ session_arg \in {None, "sess"}
            \* the default session is consulted only in graph mode and only
            \* when no session was passed
            /\ ambient_session \in IF eager \/ session_arg # None THEN {None}
                                   ELSE {None, "sess"}
            /\ variables_arg \in {<<>>, <<"w">>}
    /\ globals = [r \in Ranks |-> InitialGlobals]
    /\ store = [r \in Ranks |-> [v \in VarIds |-> 0]]
    /\ pc = [r \in Ranks |-> "init"]
    /\ variables = [r \in Ranks |-> Unset]
    /\ session = [r \in Ranks |-> None]
    /\ eval_fn = [r \in Ranks |-> None]
    /\ assign_fn = [r \in Ranks |-> None]
    /\ values = [r \in Ranks |-> Unset]
    /\ saved_model_state = [r \in Ranks |-> Unset]
    /\ saved_optimizer_state = [r \in Ranks |-> Unset]
    /\ inflight = NoCollective
    /\ last = [r \in Ranks |-> "none"]
    /\ prior = [r \in Ranks |-> "none"]
    /\ trace = [r \in Ranks |-> <<>>]
    /\ pre0 = [v \in VarIds |-> 0]
    /\ seen = [r \in Ranks |-> {}]
    /\ trainsteps = 0
    /\ entry = [r \in Ranks |-> NoValues]
    /\ recovering = [r \in Ranks |-> FALSE]
    /\ base0 = Unset
    /\ untouched = [r \in Ranks |-> FALSE]

\* ---- the training loop and the program around the State

\* rank r moves on to something other than sync(): what was remembered of its
\* last sync() is dropped
LeaveRecovery(r) ==
    /\ recovering' = [recovering EXCEPT ![r] = FALSE]
    /\ base0' = IF r = 0 THEN Unset ELSE base0

InGlobals(r, v) == \E i \in 1 .. Len(globals[r]) : globals[r][i] = v

\* a training step (or another external update) changes live values
TrainStep(r) ==
    /\ pc[r] \in {"init", "ready"}
    /\ trainsteps < MaxTrainSteps
    /\ \E new \in [VarIds -> Values] :
         /\ new # store[r]
         /\ \A v \in VarIds : new[v] # store[r][v] => InGlobals(r, v)
         /\ store' = [store EXCEPT ![r] = new]
    /\ trainsteps' = trainsteps + 1
    /\ last' = [last EXCEPT ![r] = IF pc[r] = "ready" THEN "trained" ELSE @]
    /\ prior' = [prior EXCEPT ![r] = "none"]
    /\ seen' = [seen EXCEPT ![r] = {}]
    /\ LeaveRecovery(r)
    /\ UNCHANGED <<cfgVars, globals, pc, tfVars, snapVars, inflight, trace, pre0, entry, untouched>>

\* the program creates a variable after the State was built
AddGlobal(r) ==
    /\ variant = "TF" /\ variables_arg = <<>>
    /\ pc[r] = "ready"
    /\ ~InGlobals(r, LateVar)
    /\ globals' = [globals EXCEPT ![r] = Append(@, LateVar)]
    /\ UNCHANGED <<cfgVars, store, pc, tfVars, snapVars, inflight, last, trace,
                   prior, pre0, seen, trainsteps, ghostVars>>

\* ---- construction

\* TensorFlowKerasState.__init__
KerasInit(r) ==
    /\ variant = "Keras"
    /\ pc[r] = "init"
    /\ IF ~model_built(model)
       THEN /\ pc' = [pc EXCEPT ![r] = "dead"]
            /\ last' = [last EXCEPT ![r] = "init_ValueError"]
            /\ trace' = [trace EXCEPT ![r] = <<>>]
            /\ UNCHANGED snapVars
       ELSE \E fail \in Fails :
            IF capture_raises(fail, None, None)
            THEN \* the constructor raises: no State object comes into being
                 /\ pc' = [pc EXCEPT ![r] = "dead"]
                 /\ last' = [last EXCEPT ![r] = "init_ReadError"]
                 /\ trace' = [trace EXCEPT ![r] = <<"capture">>]
                 /\ UNCHANGED snapVars
            ELSE /\ save_model(r, store[r], Unset, None, None, fail)
                 /\ pc' = [pc EXCEPT ![r] = "ready"]
                 /\ last' = [last EXCEPT ![r] = "init_ok"]
                 /\ trace' = [trace EXCEPT ![r] = <<"capture", "base_init">>]
    /\ untouched' = [untouched EXCEPT ![r] = pc'[r] = "ready"]
    /\ UNCHANGED <<cfgVars, globals, store, tfVars, inflight, prior, pre0, seen, trainsteps,
                   entry, recovering, base0>>

\* TensorFlowState.__init__
TFInit(r) ==
    /\ variant = "TF"
    /\ pc[r] = "init"
    /\ LET vs == IF variables_arg # <<>> THEN variables_arg ELSE global_variables(r)
           sess == IF session_arg # None THEN session_arg ELSE default_session
           efn == IF eager THEN "_to_numpy" ELSE "_eval_var"
           afn == IF IS_TF2 THEN "_assign_var" ELSE "_load_var"
       IN \E fail \in Fails :
            IF capture_raises(fail, efn, sess)
            THEN /\ pc' = [pc EXCEPT ![r] = "dead"]
                 /\ last' = [last EXCEPT ![r] = "init_ReadError"]
                 /\ trace' = [trace EXCEPT ![r] = <<"capture">>]
                 /\ UNCHANGED <<tfVars, snapVars>>
            ELSE /\ variables' = [variables EXCEPT ![r] = vs]
                 /\ session' = [session EXCEPT ![r] = sess]
                 /\ eval_fn' = [eval_fn EXCEPT ![r] = efn]
                 /\ assign_fn' = [assign_fn EXCEPT ![r] = afn]
                 /\ save_model(r, store[r], vs, efn, sess, fail)
                 /\ pc' = [pc EXCEPT ![r] = "ready"]
                 /\ last' = [last EXCEPT ![r] = "init_ok"]
                 /\ trace' = [trace EXCEPT ![r] = <<"capture", "base_init">>]
    /\ untouched' = [untouched EXCEPT ![r] = pc'[r] = "ready"]
    /\ UNCHANGED <<cfgVars, globals, store, inflight, prior, pre0, seen, trainsteps,
                   entry, recovering, base0>>

\* ---- save() and restore()

\* TensorFlowKerasState.save / TensorFlowState.save
Save(r) ==
    /\ pc[r] = "ready"
    /\ \E fail \in Fails :
         /\ save_model(r, store[r], variables[r], eval_fn[r], session[r], fail)
         /\ IF capture_raises(fail, eval_fn[r], session[r])
            THEN /\ last' = [last EXCEPT ![r] = "save_ReadError"]
                 /\ trace' = [trace EXCEPT ![r] = <<"capture">>]
            ELSE /\ last' = [last EXCEPT ![r] = "save_ok"]
                 /\ trace' = [trace EXCEPT ![r] = <<"capture", "base_save">>]
    /\ prior' = [prior EXCEPT ![r] = "none"]
    /\ seen' = [seen EXCEPT ![r] = {}]
    /\ LeaveRecovery(r)
    /\ untouched' = [untouched EXCEPT ![r] = FALSE]
    /\ UNCHANGED <<cfgVars, globals, store, pc, tfVars, inflight, pre0, trainsteps, entry>>

\* the outcomes a restore() is remembered to have followed
Remembered == {"save_ok", "sync_ok", "sync_BroadcastError"}

\* a restore() that uses its snapshot up
Restore_consuming(r) ==
    /\ pc[r] = "ready"
    /\ store' = [store EXCEPT ![r] =
                   IF variant = "Keras" THEN load_model_keras(@, r)
                   ELSE load_model_tf(assign_fn[r], @, variables[r], values[r])]
    /\ values' = [values EXCEPT ![r] = Unset]
    /\ saved_model_state' = [saved_model_state EXCEPT ![r] = Unset]
    /\ saved_optimizer_state' = [saved_optimizer_state EXCEPT ![r] = Unset]
    /\ last' = [last EXCEPT ![r] = "restore_ok"]
    /\ trace' = [trace EXCEPT ![r] = <<"apply", "base_restore">>]
    /\ prior' = [prior EXCEPT ![r] = IF last[r] \in Remembered THEN last[r] ELSE "none"]
    /\ seen' = [seen EXCEPT ![r] = {}]
    /\ LeaveRecovery(r)
    /\ UNCHANGED <<cfgVars, globals, pc, tfVars, inflight, pre0, trainsteps, entry, untouched>>

\* TensorFlowKerasState.restore / TensorFlowState.restore
Restore(r) ==
    /\ pc[r] = "ready"
    /\ IF variant = "TF" /\ load_raises(assign_fn[r], session[r])
       THEN /\ last' = [last EXCEPT ![r] = "restore_WriteError"]
            /\ trace' = [trace EXCEPT ![r] = <<"apply">>]
            /\ UNCHANGED store
       ELSE /\ store' = [store EXCEPT ![r] =
                           IF variant = "Keras" THEN load_model_keras(@, r)
                           ELSE load_model_tf(assign_fn[r], @, variables[r], values[r])]
            /\ last' = [last EXCEPT ![r] = "restore_ok"]
            /\ trace' = [trace EXCEPT ![r] = <<"apply", "base_restore">>]
    /\ prior' = [prior EXCEPT ![r] = IF last[r] \in Remembered THEN last[r] ELSE "none"]
    /\ seen' = [seen EXCEPT ![r] = {}]
    /\ LeaveRecovery(r)
    /\ UNCHANGED <<cfgVars, globals, pc, tfVars, snapVars, inflight, pre0, trainsteps,
                   entry, untouched>>

\* ---- sync()

\* the collectives a rank can be blocked in
CollectiveKinds == {"bcast_model", "bcast_optimizer", "bcast_global", "bcast_variables"}

InSync(q) == pc[q] \in CollectiveKinds

\* a TensorFlowState.sync() that broadcasts the global collection of the moment
BcastVars_global(k, r) ==
    CASE k = "bcast_model" -> ModelVars
      [] k = "bcast_optimizer" -> OptimizerVars
      [] OTHER -> global_variables(r)

\* a collective runtime in which the optimizer broadcast writes nothing
BcastVars_model_only(k, r) ==
    CASE k = "bcast_model" -> ModelVars
      [] k = "bcast_optimizer" -> <<>>
      [] k = "bcast_global" -> global_variables(r)
      [] OTHER -> variables[r]

\* the variables a collective writes in rank r
BcastVars(k, r) ==
    CASE k = "bcast_model" -> ModelVars
      [] k = "bcast_optimizer" -> OptimizerVars
      [] k = "bcast_global" -> global_variables(r)
      [] OTHER -> variables[r]

InSeq(v, vs) == \E i \in 1 .. Len(vs) : vs[i] = v

\* a sync() that does not capture again after the broadcast
Commit_without_capture(r, st, tr) ==
    /\ store' = [store EXCEPT ![r] = st]
    /\ pc' = [pc EXCEPT ![r] = "ready"]
    /\ last' = [last EXCEPT ![r] = "sync_ok"]
    /\ trace' = [trace EXCEPT ![r] = tr \o <<"base_sync">>]
    /\ UNCHANGED snapVars

\* a sync() that runs the base class's sync() before it captures
Commit_base_first(r, st, tr) ==
    \E fail \in Fails :
      /\ store' = [store EXCEPT ![r] = st]
      /\ save_model(r, st, variables[r], eval_fn[r], session[r], fail)
      /\ pc' = [pc EXCEPT ![r] = "ready"]
      /\ IF capture_raises(fail, eval_fn[r], session[r])
         THEN /\ last' = [last EXCEPT ![r] = "sync_ReadError"]
              /\ trace' = [trace EXCEPT ![r] = tr \o <<"base_sync", "capture">>]
         ELSE /\ last' = [last EXCEPT ![r] = "sync_ok"]
              /\ trace' = [trace EXCEPT ![r] = tr \o <<"base_sync", "capture">>]

\* the rest of sync() once the tensor broadcast is behind: _save_model(), then
\* the base class's sync()
Commit(r, st, tr) ==
    \E fail \in Fails :
      /\ store' = [store EXCEPT ![r] = st]
      /\ save_model(r, st, variables[r], eval_fn[r], session[r], fail)
      /\ pc' = [pc EXCEPT ![r] = "ready"]
      /\ IF capture_raises(fail, eval_fn[r], session[r])
         THEN /\ last' = [last EXCEPT ![r] = "sync_ReadError"]
              /\ trace' = [trace EXCEPT ![r] = tr \o <<"capture">>]
         ELSE /\ last' = [last EXCEPT ![r] = "sync_ok"]
              /\ trace' = [trace EXCEPT ![r] = tr \o <<"capture", "base_sync">>]

\* a backend argument that falls back to a session of its own
get_session_default(b) == "sess"

\* backend.get_session(): an attribute error when no backend was given
get_session(b) == IF b = None THEN "AttributeError" ELSE "sess"

\* sync() up to the first point where it blocks in a collective
SyncCall(r) ==
    /\ pc[r] = "ready"
    /\ prior' = [prior EXCEPT ![r] = "none"]
    /\ pre0' = IF r = 0 THEN store[0] ELSE pre0
    /\ recovering' = [recovering EXCEPT ![r] = last[r] = "restore_ok"]
    /\ base0' = IF r # 0 THEN base0
                ELSE IF last[0] = "restore_ok" THEN Snapshot(0) ELSE Unset
    /\ untouched' = [untouched EXCEPT ![r] = FALSE]
    /\ entry' = [entry EXCEPT ![r] = IF variant = "Keras" /\ eager THEN store[r] ELSE NoValues]
    /\ seen' = [q \in Ranks |->
                  IF q = r THEN {r} \cup {p \in Ranks : InSync(p)}
                  ELSE IF InSync(q) THEN seen[q] \cup {r} ELSE seen[q]]
    /\ CASE variant = "Keras" /\ eager ->
              /\ pc' = [pc EXCEPT ![r] = "bcast_model"]
              /\ last' = [last EXCEPT ![r] = "in_sync"]
              /\ trace' = [trace EXCEPT ![r] = <<"bcast_model">>]
              /\ UNCHANGED <<store, snapVars>>
         [] variant = "Keras" /\ ~eager /\ get_session(backend) = "AttributeError" ->
              /\ last' = [last EXCEPT ![r] = "sync_AttributeError"]
              /\ trace' = [trace EXCEPT ![r] = <<"build_op">>]
              /\ UNCHANGED <<store, snapVars, pc>>
         [] variant = "Keras" /\ ~eager /\ get_session(backend) # "AttributeError" ->
              /\ pc' = [pc EXCEPT ![r] = "bcast_global"]
              /\ last' = [last EXCEPT ![r] = "in_sync"]
              /\ trace' = [trace EXCEPT ![r] = <<"build_op", "run_op">>]
              /\ UNCHANGED <<store, snapVars>>
         [] variant = "TF" /\ (eager \/ session[r] # None) ->
              /\ pc' = [pc EXCEPT ![r] = "bcast_variables"]
              /\ last' = [last EXCEPT ![r] = "in_sync"]
              /\ trace' = [trace EXCEPT ![r] =
                             IF eager THEN <<"bcast_variables">> ELSE <<"build_op", "run_op">>]
              /\ UNCHANGED <<store, snapVars>>
         [] variant = "TF" /\ ~eager /\ session[r] = None ->
              Commit(r, store[r], <<"build_op">>)
    /\ UNCHANGED <<cfgVars, globals, tfVars, inflight, trainsteps>>

\* a collective runtime that releases a broadcast as soon as every rank is in
\* some broadcast
Matched_any(k) == \A q \in Ranks : InSync(q)

\* every rank has issued the collective k
Matched(k) == \A q \in Ranks : pc[q] = k

\* the collective runtime hands rank r the root's values once every rank has
\* arrived at the same collective, and the rank's sync() runs on
Deliver(r) ==
    /\ InSync(r)
    /\ LET k == pc[r]
           fresh == inflight.kind = "none" /\ Matched(k)
           data == IF fresh THEN store[0] ELSE inflight.data
           pend == (IF fresh THEN Ranks ELSE inflight.pending) \ {r}
           st == [v \in VarIds |-> IF InSeq(v, BcastVars(k, r)) THEN data[v] ELSE store[r][v]]
       IN /\ fresh \/ (inflight.kind = k /\ r \in inflight.pending)
          /\ inflight' = IF pend = {} THEN NoCollective
                         ELSE [kind |-> k, data |-> data, pending |-> pend]
          /\ CASE k = "bcast_model" ->
                    /\ store' = [store EXCEPT ![r] = st]
                    /\ pc' = [pc EXCEPT ![r] = "bcast_optimizer"]
                    /\ trace' = [trace EXCEPT ![r] = Append(@, "bcast_optimizer")]
                    /\ UNCHANGED <<last, snapVars>>
               [] k = "bcast_variables" /\ eager /\ session[r] # None ->
                    \* session.run() of what the eager broadcast returned
                    /\ store' = [store EXCEPT ![r] = st]
                    /\ pc' = [pc EXCEPT ![r] = "ready"]
                    /\ last' = [last EXCEPT ![r] = "sync_RunError"]
                    /\ trace' = [trace EXCEPT ![r] = Append(@, "run_op")]
                    /\ UNCHANGED snapVars
               [] OTHER -> Commit(r, st, trace[r])
    /\ entry' = IF pc[r] = "bcast_model" THEN entry ELSE [entry EXCEPT ![r] = NoValues]
    /\ UNCHANGED <<cfgVars, globals, tfVars, prior, pre0, seen, trainsteps,
                   recovering, base0, untouched>>

\* the collective raises in rank r (a peer is gone, the runtime shut down),
\* after writing none, some or all of the values it had received
BroadcastFail(r) ==
    /\ InSync(r)
    /\ LET k == pc[r]
           active == inflight.kind = k /\ r \in inflight.pending
           pend == inflight.pending \ {r}
       IN /\ \E S \in SUBSET VarIds :
               /\ \A v \in S : active /\ InSeq(v, BcastVars(k, r))
               /\ store' = [store EXCEPT ![r] =
                              [v \in VarIds |-> IF v \in S THEN inflight.data[v] ELSE @[v]]]
          /\ inflight' = IF ~active THEN inflight
                         ELSE IF pend = {} THEN NoCollective
                         ELSE [inflight EXCEPT !.pending = pend]
    /\ pc' = [pc EXCEPT ![r] = "ready"]
    /\ last' = [last EXCEPT ![r] = "sync_BroadcastError"]
    /\ entry' = [entry EXCEPT ![r] = NoValues]
    /\ UNCHANGED <<cfgVars, globals, tfVars, snapVars, trace, prior, pre0, seen, trainsteps,
                   recovering, base0, untouched>>

Next ==
    \/ \E r \in Ranks : TrainStep(r)
    \/ \E r \in Ranks : AddGlobal(r)
    \/ \E r \in Ranks : KerasInit(r)
    \/ \E r \in Ranks : TFInit(r)
    \/ \E r \in Ranks : Save(r)
    \/ \E r \in Ranks : Restore(r)
    \/ \E r \in Ranks : SyncCall(r)
    \/ \E r \in Ranks : Deliver(r)
    \/ \E r \in Ranks : BroadcastFail(r)

Spec == Init /\ [][Next]_vars

\* ---- the claims

Built(r) == pc[r] \notin {"init", "dead"}

Trained(r) == \E v \in VarIds : store[r][v] # 0

TrackedTrained(r) == \E i \in 1 .. Len(Tracked(r)) : Live(r)[i] # 0

\* C1: after any sequence of save(), sync() and external changes, a restore()
\* that completes without error leaves every tracked live value equal to the
\* value held in the snapshot, in both variants and every configuration.
C1_RestoreReinstatesCapture ==
    \A r \in Ranks : last[r] = "restore_ok" => Live(r) = Snapshot(r)

\* C2: once sync() has been called by the ranks and has returned on all of
\* them, every rank's tracked live values equal the values rank 0 held when it
\* called sync(), and rank 0's values are unchanged.
C2_SyncConvergence ==
    (\A r \in Ranks : last[r] = "sync_ok")
        => \A r \in Ranks : Live(r) = Read(pre0, Tracked(r))

\* C3: when sync() returns the snapshot equals the live values the broadcast
\* left, so a restore() that follows with no save() in between changes no
\* live value.
C3_SnapshotCommit ==
    /\ [](\A r \in Ranks : last[r] = "sync_ok" => Snapshot(r) = Live(r))
    /\ [][\A r \in Ranks :
            (last[r] = "sync_ok" /\ last'[r] = "restore_ok") => store'[r] = store[r]]_vars

C3_Witness ==
    \E r \in Ranks \ {0} :
        /\ last[r] = "restore_ok" /\ prior[r] = "sync_ok"
        /\ TrackedTrained(r) /\ Live(r) = Read(pre0, Tracked(r))

\* C4: save() leaves the live values as they are, and a restore() right after
\* it leaves them as they were when save() was called.
C4_RoundTrip ==
    [][\A r \in Ranks :
         /\ last'[r] = "save_ok" => store'[r] = store[r]
         /\ (last[r] = "save_ok" /\ last'[r] = "restore_ok") => Live(r)' = Live(r)]_vars

C4_Witness ==
    \E r \in Ranks :
        last[r] = "restore_ok" /\ prior[r] = "save_ok" /\ TrackedTrained(r) /\ Live(r) = Snapshot(r)

\* C5: a rank's sync() returns only after every rank of the membership has
\* entered sync().
C5_SyncIsBarrier ==
    \A r \in Ranks : last[r] = "sync_ok" => seen[r] = Ranks

\* C6: a step changes the snapshot to a whole new capture or not at all; for
\* TensorFlowKerasState the saved model and optimizer weights come from the
\* same capture.
C6_SnapshotNeverPartial ==
    [][\A r \in Ranks : Snapshot(r)' = Snapshot(r) \/ Snapshot(r)' = Live(r)']_vars

\* C7: when the collective raises during sync() the snapshot is as it was
\* before the call and the base sync has not run, and a restore() that follows
\* brings every tracked live value back to that snapshot.
C7_FailedSyncRollsBack ==
    [][\A r \in Ranks :
         /\ last'[r] = "sync_BroadcastError"
                => Snapshot(r)' = Snapshot(r) /\ ~InSeq("base_sync", trace'[r])
         /\ (last[r] = "sync_BroadcastError" /\ last'[r] = "restore_ok")
                => Live(r)' = Snapshot(r)]_vars

\* C8: constructing a TensorFlowKerasState from a model that has a build step
\* and is not built raises ValueError: no snapshot, no base initialization, no
\* broadcast, and the model's weights stay as they were.
C8_UnbuiltModelRejected ==
    /\ [](\A r \in Ranks :
            (variant = "Keras" /\ model.has_build /\ ~model.built /\ pc[r] # "init")
                => /\ pc[r] = "dead" /\ last[r] = "init_ValueError"
                   /\ Snapshot(r) = Unset
                   /\ trace[r] = <<>>
                   /\ inflight = NoCollective)
    /\ [][\A r \in Ranks : (pc[r] = "init" /\ pc'[r] = "dead") => store'[r] = store[r]]_vars

C8_Witness ==
    \E r \in Ranks : last[r] = "init_ValueError" /\ Trained(r) /\ model.has_build

\* the steps of a call that belong to the base class
BaseSteps == {"base_save", "base_restore", "base_sync"}

\* C9: in save(), restore() and sync() the base class's step comes last, after
\* the whole of the variant's tensor work.
C9_TensorWorkBeforeBase ==
    \A r \in Ranks :
        LET t == trace[r]
            n == Len(t)
        IN /\ \A i \in 1 .. n : t[i] \in BaseSteps => i = n
           /\ (n > 0 /\ t[n] = "base_save") => t = <<"capture", "base_save">>
           /\ (n > 0 /\ t[n] = "base_restore") => t = <<"apply", "base_restore">>
           /\ (n > 0 /\ t[n] = "base_sync")
                 => /\ n >= 3 /\ t[n - 1] = "capture"
                    /\ t[n - 2] \in {"bcast_optimizer", "run_op", "bcast_variables", "build_op"}
                    /\ (t[n - 2] = "bcast_optimizer" => t[1] = "bcast_model")

C9_Witness ==
    /\ \E r \in Ranks :
         trace[r] = <<"bcast_model", "bcast_optimizer", "capture", "base_sync">>
    /\ \E r \in Ranks : trace[r] = <<"apply", "base_restore">>

\* C10: a TensorFlowState built without a variable list tracks the global
\* collection as it was at construction; a variable added later is not read
\* by save(), written by restore() or broadcast by sync().
C10_LateVariablesUntracked ==
    /\ [](\A r \in Ranks :
            (variant = "TF" /\ variables_arg = <<>> /\ Built(r))
                => /\ variables[r] = InitialGlobals
                   /\ Len(values[r]) = Len(InitialGlobals))
    /\ [][\A r \in Ranks :
            (variant = "TF" /\ variables_arg = <<>> /\ trainsteps' = trainsteps)
                => store'[r][LateVar] = store[r][LateVar]]_vars

C10_Witness ==
    \E r \in Ranks \ {0} :
        /\ variant = "TF" /\ variables_arg = <<>>
        /\ InGlobals(r, LateVar) /\ InGlobals(0, LateVar)
        /\ last[r] = "sync_ok" /\ store[0][LateVar] # store[r][LateVar]

\* what a broadcast of the variables vs leaves in a rank: the root's values
\* data on vs, the rank's own values st elsewhere
Overwrite(st, data, vs) == [v \in VarIds |-> IF InSeq(v, vs) THEN data[v] ELSE st[v]]

\* the root's values that the collective a rank is blocked in hands out
RootData == IF inflight.kind = "none" THEN store[0] ELSE inflight.data

\* C11: in an eager TensorFlowKerasState.sync() both broadcasts are done when
\* sync() returns, and the live values and the snapshot it leaves are those
\* that the optimizer broadcast followed by the model broadcast would leave.
C11_BroadcastOrderIndependent ==
    [][\A r \in Ranks :
         (variant = "Keras" /\ eager /\ pc[r] = "bcast_optimizer" /\ last'[r] = "sync_ok")
            => LET other == Overwrite(Overwrite(entry[r], RootData, OptimizerVars),
                                      RootData, ModelVars)
               IN /\ store'[r] = other
                  /\ Snapshot(r)' = [i \in 1 .. Len(Tracked(r)) |-> other[Tracked(r)[i]]]
                  /\ trace'[r] = <<"bcast_model", "bcast_optimizer", "capture", "base_sync">>]_vars

C11_Witness ==
    \E r \in Ranks \ {0} :
        /\ variant = "Keras" /\ eager /\ last[r] = "sync_ok"
        /\ store[r]["w"] = 1 /\ store[r]["m"] = 1 /\ store[0] = store[r]
        /\ Snapshot(r) = <<1, 1>>

\* C12: when every rank has called restore() and then sync(), and sync() has
\* returned on all of them, every rank's tracked live values and every rank's
\* snapshot equal the snapshot rank 0 held before the recovery.
C12_RecoverySequence ==
    (\A r \in Ranks : last[r] = "sync_ok" /\ recovering[r])
        => \A r \in Ranks : Live(r) = base0 /\ Snapshot(r) = base0

\* C13: a TensorFlowState writes by direct assignment exactly when execution
\* is eager and the framework is TensorFlow 2, and by the load through the
\* session in every other configuration; the choice made at construction
\* never changes.
C13_WriteStrategySelection ==
    /\ [](\A r \in Ranks :
            (variant = "TF" /\ Built(r))
                => assign_fn[r] = IF eager /\ IS_TF2 THEN "_assign_var" ELSE "_load_var")
    /\ [][\A r \in Ranks : Built(r) => assign_fn'[r] = assign_fn[r]]_vars

\* C14: when a TensorFlowState.sync() returns, the broadcast it built has been
\* carried out before the capture: run through the session in graph mode, done
\* by the broadcast call in eager mode, so that the new snapshot holds the
\* root's values.
C14_BroadcastBeforeCapture ==
    /\ [](\A r \in Ranks :
            (variant = "TF" /\ last[r] = "sync_ok")
                => trace[r] = IF eager THEN <<"bcast_variables", "capture", "base_sync">>
                              ELSE <<"build_op", "run_op", "capture", "base_sync">>)
    /\ [][\A r \in Ranks :
            (variant = "TF" /\ last[r] # "sync_ok" /\ last'[r] = "sync_ok")
                => Snapshot(r)' = [i \in 1 .. Len(variables[r]) |-> RootData[variables[r][i]]]]_vars

\* C15: restore() leaves the snapshot as it was, whether it returns or raises,
\* and a restore() that follows a restore() changes no live value.
C15_RestoreKeepsSnapshot ==
    [][\A r \in Ranks :
         /\ last'[r] \in {"restore_ok", "restore_WriteError"} => Snapshot(r)' = Snapshot(r)
         /\ (last[r] = "restore_ok" /\ last'[r] = "restore_ok") => store'[r] = store[r]]_vars

\* a restore() has undone the training step of a rank whose peers are not built
C15_Witness ==
    \E r \in Ranks :
        /\ last[r] = "restore_ok" /\ trainsteps = MaxTrainSteps
        /\ Snapshot(r) = [i \in 1 .. Len(Tracked(r)) |-> 0]
        /\ \A q \in Ranks : store[q] = NoValues /\ (q # r => pc[q] = "init")

\* the step is a save() of rank r
SaveStep(r) ==
    /\ last'[r] \in {"save_ok", "save_ReadError"}
    /\ <<last[r], trace[r], Snapshot(r)>> # <<last'[r], trace'[r], Snapshot(r)'>>

\* C16: save() changes the snapshot of the calling rank and nothing else: no
\* live value of any rank, no other rank's snapshot; it starts no collective
\* and the rank is not left waiting for its peers.
C16_SaveIsLocal ==
    [][\A r \in Ranks :
         SaveStep(r)
            => /\ store' = store
               /\ inflight' = inflight
               /\ pc' = pc
               /\ \A q \in Ranks \ {r} : Snapshot(q)' = Snapshot(q)]_vars

\* a save() has returned with a new snapshot while a peer is blocked in sync()
C16_Witness ==
    \E r \in Ranks : \E q \in Ranks \ {r} :
        /\ last[r] = "save_ok" /\ TrackedTrained(r) /\ Snapshot(r) = Live(r)
        /\ InSync(q) /\ Snapshot(q) # Snapshot(r)

\* C17: a State that was built holds a snapshot, captured once in the
\* constructor before the base class is initialized; as long as neither save()
\* nor sync() is called that snapshot stays, restore() does not raise, and a
\* restore() that returns leaves the live values equal to it.
C17_SnapshotAtConstruction ==
    /\ [](\A r \in Ranks :
            /\ Built(r) => Len(Snapshot(r)) = Len(Tracked(r))
            /\ last[r] = "init_ok"
                  => trace[r] = <<"capture", "base_init">> /\ Snapshot(r) = Live(r)
            /\ untouched[r] => last[r] # "restore_WriteError"
            /\ (untouched[r] /\ last[r] = "restore_ok") => Live(r) = Snapshot(r))
    /\ [][\A r \in Ranks :
            (untouched[r] /\ untouched'[r]) => Snapshot(r)' = Snapshot(r)]_vars

\* C18: in an eager TensorFlowKerasState.sync() every rank issues the model
\* broadcast first, the optimizer broadcast once the model broadcast has
\* completed, and captures after both; the ranks a broadcast is delivered to
\* are all in that same broadcast.
C18_ModelThenOptimizer ==
    /\ [](\A r \in Ranks :
            (variant = "Keras" /\ eager)
               => /\ pc[r] = "bcast_model" => trace[r] = <<"bcast_model">>
                  /\ pc[r] = "bcast_optimizer" => trace[r] = <<"bcast_model", "bcast_optimizer">>
                  /\ last[r] \in {"sync_ok", "sync_ReadError"}
                        => SubSeq(trace[r], 1, 3) = <<"bcast_model", "bcast_optimizer", "capture">>
                  /\ (inflight.kind # "none" /\ r \in inflight.pending) => pc[r] = inflight.kind)
    /\ [][\A r \in Ranks :
            (variant = "Keras" /\ eager /\ pc[r] = "bcast_model" /\ pc'[r] = "bcast_optimizer")
               => /\ store'[r] = Overwrite(store[r], RootData, ModelVars)
                  /\ Snapshot(r)' = Snapshot(r)]_vars

\* a rank has the root's model weights and waits in the optimizer broadcast
\* while a peer is still in the model broadcast
C18_Witness ==
    \E r \in Ranks \ {0} : \E q \in Ranks \ {r} :
        /\ variant = "Keras" /\ eager
        /\ pc[r] = "bcast_optimizer" /\ pc[q] = "bcast_model"
        /\ inflight.kind = "bcast_model" /\ q \in inflight.pending
        /\ store[0]["w"] = 1 /\ store[0]["m"] = 1
        /\ store[r]["w"] = 1 /\ store[r]["m"] = 0

\* C19: the sync() of a TensorFlowKerasState built without a backend raises in
\* graph mode when it asks the backend for its session, after the broadcast
\* operation was built and before it is run: live values and snapshot stay as
\* they were, the base sync does not run, and no collective is entered.
C19_MissingBackendFails ==
    /\ [](\A r \in Ranks :
            (variant = "Keras" /\ ~eager /\ backend = None)
               => /\ ~InSync(r) /\ inflight = NoCollective
                  /\ last[r] \notin {"sync_ok", "in_sync", "sync_BroadcastError", "sync_ReadError"}
                  /\ last[r] = "sync_AttributeError" => trace[r] = <<"build_op">>)
    /\ [][\A r \in Ranks :
            (variant = "Keras" /\ ~eager /\ backend = None /\ pc[r] = "ready"
             /\ last'[r] = "sync_AttributeError")
               => /\ store'[r] = store[r] /\ Snapshot(r)' = Snapshot(r)
                  /\ pc'[r] = "ready" /\ inflight' = inflight]_vars

\* sync() has raised on a rank whose live values differ from its snapshot
C19_Witness ==
    \E r \in Ranks :
        /\ variant = "Keras" /\ ~eager /\ backend = None
        /\ last[r] = "sync_AttributeError" /\ trace[r] = <<"build_op">>
        /\ TrackedTrained(r) /\ Snapshot(r) # Live(r)

\* zip(self.variables, self._values): pairs up to the shorter list
RECURSIVE Zip(_, _)
Zip(vs, ws) ==
    IF vs = <<>> \/ ws = <<>> THEN <<>>
    ELSE <<<<Head(vs), Head(ws)>>>> \o Zip(Tail(vs), Tail(ws))

\* C20: the snapshot of a TensorFlowState holds one value per tracked variable,
\* in the order of the variable list: the pairs the restore loop goes through
\* are every tracked variable, once, with the value captured from it, and where
\* the write strategy writes, restore() leaves in each variable its own value.
C20_SnapshotPairsVariables ==
    /\ [](\A r \in Ranks :
            (variant = "TF" /\ Built(r))
               => /\ Len(values[r]) = Len(variables[r])
                  /\ \A i, j \in 1 .. Len(variables[r]) :
                        variables[r][i] = variables[r][j] => i = j
                  /\ Zip(variables[r], values[r])
                        = [i \in 1 .. Len(variables[r]) |-> <<variables[r][i], values[r][i]>>])
    /\ [][\A r \in Ranks :
            (variant = "TF" /\ Built(r)')
               => /\ values'[r] # values[r]
                        => \A i \in 1 .. Len(variables'[r]) :
                              values'[r][i] = store'[r][variables'[r][i]]
                  /\ (last'[r] = "restore_ok" /\ (eager \/ assign_fn'[r] = "_load_var"))
                        => \A v \in VarIds :
                              store'[r][v] =
                                 IF InSeq(v, variables[r])
                                 THEN values[r][CHOOSE i \in 1 .. Len(variables[r]) :
                                                    variables[r][i] = v]
                                 ELSE store[r][v]]_vars

\* a restore() has written a two-variable snapshot whose values differ
C20_Witness ==
    \E r \in Ranks :
        /\ variant = "TF" /\ variables[r] = <<"w", "m">> /\ assign_fn[r] = "_load_var"
        /\ last[r] = "restore_ok" /\ prior[r] = "save_ok"
        /\ values[r] = <<0, 1>> /\ store[r]["w"] = 0 /\ store[r]["m"] = 1

====
